---- MODULE Spec2Model ----
(***************************************************************************)
(* Model of launcher.py: the operator commands initdb, dropdb and          *)
(* convertjson, the database and migration files they act on, and the      *)
(* collaborators they call (db.Table, data_migrators, asyncpg, discord).   *)
(*                                                                         *)
(* One operator command runs at a time (each is one process).  A command   *)
(* is a sequence of steps, pc is the statement the process is at.  What    *)
(* the environment decides (a connection that fails, DDL that is           *)
(* rejected, a migrator that raises) is a nondeterministic choice.         *)
(***************************************************************************)
EXTENDS FiniteSets, Integers, Sequences, TLC

\* ------------------------------------------------------------------ bounds
\* longest list of names given on the command line (cogs, --extension)
MaxCogs == 2

\* longest snapshot history an apply run still adds to
MaxVersion == 3

\* number of different definitions a table is declared with over time
MaxSchema == 2

\* ---------------------------------------------------------------- universe
\* data_migrators: the migrate_<name> functions in the order they are declared
Migrators == <<"tags", "profiles", "stars">>

\* str ordering of the attribute names of data_migrators (sorted(), dir())
NameOrder == <<"profiles", "stars", "tags">>

UnitNames == {Migrators[k] : k \in 1..Len(Migrators)}

\* names an operator may type after convertjson
CogNames == UnitNames \cup {"all", "missing_unit"}

\* bot.initial_extensions
initial_extensions == <<"cogs.profiles", "cogs.stars", "cogs.tags">>

\* modules an operator may name with --extension
ExtNames == {"cogs.profiles", "cogs.stars", "cogs.tags", "cogs.missing_unit"}

\* the db.Table subclasses a module declares, in declaration order
ModuleTables(ext) ==
    CASE ext = "cogs.profiles" -> <<"profiles">>
      [] ext = "cogs.stars"    -> <<"stars">>
      [] ext = "cogs.tags"     -> <<"tags">>
      [] OTHER                 -> <<>>

Tables == {"profiles", "stars", "tags"}

\* the table a migrator writes its rows to
UnitTable(u) == u

\* the declared definition of a table (fixed at module load time)
Declared(t) == 1

SeqsUpTo(S, n) == UNION {[1..k -> S] : k \in 0..n}

Range(s) == {s[k] : k \in 1..Len(s)}

VARIABLES
    \* ---- the world, kept between commands
    live,        \* live[t]: schema of table t in the database, 0 = no table
    history,     \* history[t]: migrations/<t>.json, the snapshots; <<>> = no file
    current,     \* current[t]: migrations/current-<t>.json, the version; 0 = no file
    rows,        \* units whose imported rows are in the database
    \* ---- the running command (one process)
    cmd,         \* the command the operator invoked
    pc,          \* the statement the process is at
    cogs,        \* convertjson: the names as given
    to_run,      \* convertjson: the resolved units
    extension,   \* initdb: the modules to load
    name,        \* dropdb: the table to drop
    idx,         \* position of the loop the process is in
    tables,      \* db.Table.all_tables() in registration order
    table_pool,  \* db.Table.create_pool succeeded in this process
    pool,        \* convertjson's pool: "none", "open", "closed"
    client,      \* discord session: "none", "started", "ready", "closed"
    invoked,     \* units invoked so far, in order
    running,     \* units whose invocation has started and not finished
    attempts,    \* attempts[t]: times table.create was run for t
    failed,      \* tables whose table.create raised
    ddl,         \* DDL statements executed by this process
    connected,   \* remove_database opened a connection
    confirmed,   \* dropdb: the answer to click.confirm: "none", "yes", "no"
    outcomes,    \* outcomes[k]: the k-th invoked migrator returned (TRUE) or raised
    echo,        \* what click.echo printed
    \* ---- apply runs (table.create) seen step by step, one per process
    wpc,         \* wpc[w]: the step apply run w is at
    wtab,        \* wtab[w]: the table it applies
    wdecl,       \* wdecl[w]: the definition its process declares for the table
    wread,       \* wread[w]: the length of the history when it was loaded
    wfail,       \* wfail[w]: why the run failed: "", "ddl", "conflict", "corrupt"
    written,     \* written[t]: the highest version ever written for t
    torn         \* torn[t]: definition of an apply that died between DDL and pointer, or 0

world == <<live, history, current, rows>>
store == <<wpc, wtab, wdecl, wread, wfail, written, torn>>
vars  == <<live, history, current, rows, cmd, pc, cogs, to_run, extension, name,
           idx, tables, table_pool, pool, client, invoked, running, attempts,
           failed, ddl, connected, confirmed, outcomes, echo,
           wpc, wtab, wdecl, wread, wfail, written, torn>>

Msg(text, about) == [text |-> text, about |-> about]

\* processes that run table.create at the same time
Writers == {"w1", "w2"}

\* the tables the step-by-step apply runs are followed for
StoreTables == {"tags"}

\* a fresh process: nothing loaded, nothing acquired, nothing printed
Fresh ==
    /\ cogs = <<>> /\ to_run = <<>> /\ extension = <<>> /\ name = ""
    /\ idx = 0 /\ tables = <<>> /\ table_pool = FALSE
    /\ pool = "none" /\ client = "none"
    /\ invoked = <<>> /\ running = {}
    /\ attempts = [t \in Tables |-> 0] /\ failed = {}
    /\ ddl = <<>> /\ connected = FALSE /\ echo = <<>>
    /\ confirmed = "none" /\ outcomes = <<>>

Init ==
    /\ live = [t \in Tables |-> 0]
    /\ history = [t \in Tables |-> <<>>]
    /\ current = [t \in Tables |-> 0]
    /\ rows = {}
    /\ cmd = "none" /\ pc = "idle"
    /\ Fresh
    /\ wpc = [w \in Writers |-> "idle"]
    /\ wtab = [w \in Writers |-> ""]
    /\ wdecl = [w \in Writers |-> 0]
    /\ wread = [w \in Writers |-> 0]
    /\ wfail = [w \in Writers |-> ""]
    /\ written = [t \in Tables |-> 0]
    /\ torn = [t \in Tables |-> 0]

\* ------------------------------------------------------ db.Table (cogs.utils.db)
\* (variant) the diff against the pointer's snapshot is never found empty
Plan_always_diff(t) == IF history[t] = <<>> THEN "create" ELSE "alter"

\* what table.create does for t in a process that declares definition d, from
\* the snapshot history and the pointer: without a pointer the table was never
\* brought up (or an apply died before advancing it) and creation is run
\* (again); with one, the snapshot it refers to is diffed against d
PlanFor(t, d) ==
    IF history[t] = <<>> \/ current[t] = 0 THEN "create"
    ELSE IF current[t] \in 1..Len(history[t])
         THEN IF history[t][current[t]] = d THEN "noop" ELSE "alter"
         ELSE "corrupt"

\* what table.create does for t in the launcher's process
Plan(t) == PlanFor(t, Declared(t))

\* table.create raises: the store is unusable, or the database rejected the DDL
CreateRaises(t, ok) ==
    \/ Plan(t) = "corrupt"
    \/ Plan(t) \in {"create", "alter"} /\ ~ok

\* table.create(t); ok is whether the database accepts the DDL
table_create(t, ok) ==
    /\ ddl' = IF Plan(t) \in {"create", "alter"} THEN Append(ddl, <<Plan(t), t>>) ELSE ddl
    /\ IF Plan(t) \in {"create", "alter"} /\ ok
       THEN /\ live' = [live EXCEPT ![t] = Declared(t)]
            /\ history' = [history EXCEPT ![t] = Append(@, Declared(t))]
            /\ current' = [current EXCEPT ![t] = Len(history[t]) + 1]
       ELSE UNCHANGED <<live, history, current>>

\* ---------------------------------------------------------------- initdb
\* where initdb returns to
AfterInitdb == IF cmd = "convertjson" THEN "cj_units" ELSE "done"

\* the loop over db.Table.all_tables() starts, or there is nothing to do
EnterTables(tbls) == IF tbls = <<>> THEN AfterInitdb ELSE "initdb_tables"

\* tables of ext that all_tables() does not hold yet
NewTables(ext) == SelectSeq(ModuleTables(ext), LAMBDA t : t \notin Range(tables))

initdb(ext) ==
    /\ pc = "idle"
    /\ cmd' = "initdb" /\ pc' = "initdb_pool"
    /\ extension' = ext
    /\ UNCHANGED <<store, confirmed, outcomes, world, cogs, to_run, name, idx, tables, table_pool, pool, client,
                   invoked, running, attempts, failed, ddl, connected, echo>>

\* run(db.Table.create_pool(config.postgresql))
initdb_pool(ok) ==
    /\ pc = "initdb_pool"
    /\ IF ok
       THEN /\ table_pool' = TRUE
            /\ extension' = IF extension = <<>> THEN initial_extensions ELSE extension
            /\ idx' = 1
            /\ pc' = "initdb_load"
            /\ echo' = echo
       ELSE /\ echo' = Append(echo, Msg("Could not create PostgreSQL connection pool.", "initdb"))
            /\ pc' = AfterInitdb
            /\ idx' = IF cmd = "convertjson" THEN 1 ELSE idx
            /\ UNCHANGED <<table_pool, extension>>
    /\ UNCHANGED <<store, confirmed, outcomes, world, cmd, cogs, to_run, name, tables, pool, client,
                   invoked, running, attempts, failed, ddl, connected>>

\* for ext in extension: importlib.import_module(ext)
initdb_load(ok) ==
    /\ pc = "initdb_load"
    /\ idx <= Len(extension)
    /\ LET ext == extension[idx]
           loaded == ok /\ ext \in Range(initial_extensions)
       IN /\ tables' = IF loaded THEN tables \o NewTables(ext) ELSE tables
          /\ echo' = IF loaded THEN echo ELSE Append(echo, Msg("Could not load", ext))
    /\ idx' = idx + 1
    /\ UNCHANGED <<store, confirmed, outcomes, world, cmd, pc, cogs, to_run, extension, name, table_pool, pool,
                   client, invoked, running, attempts, failed, ddl, connected>>

initdb_loaded ==
    /\ pc = "initdb_load"
    /\ idx > Len(extension)
    /\ pc' = EnterTables(tables)
    /\ idx' = 1
    /\ UNCHANGED <<store, confirmed, outcomes, world, cmd, cogs, to_run, extension, name, tables, table_pool, pool,
                   client, invoked, running, attempts, failed, ddl, connected, echo>>

\* where the table loop goes after table.create for table number k returned
\* or raised: the except clause prints and the loop goes on
\* (variant) the except clause returns: the first failure ends the loop
AfterCreate_return(k, raised) ==
    IF raised \/ k >= Len(tables) THEN AfterInitdb ELSE "initdb_tables"

AfterCreate(k, raised) == IF k < Len(tables) THEN "initdb_tables" ELSE AfterInitdb

\* for table in db.Table.all_tables(): run(table.create(...))
initdb_tables(ok) ==
    /\ pc = "initdb_tables"
    /\ idx <= Len(tables)
    /\ LET t == tables[idx]
       IN /\ table_create(t, ok)
          /\ attempts' = [attempts EXCEPT ![t] = @ + 1]
          /\ IF CreateRaises(t, ok)
             THEN /\ failed' = failed \cup {t}
                  /\ echo' = Append(echo, Msg("Could not create", t))
             ELSE /\ failed' = failed
                  /\ echo' = Append(echo, Msg("Processing creation or migration complete.", t))
    /\ pc' = AfterCreate(idx, CreateRaises(tables[idx], ok))
    /\ idx' = IF idx < Len(tables) THEN idx + 1 ELSE 1
    /\ UNCHANGED <<store, confirmed, outcomes, rows, cmd, cogs, to_run, extension, name, tables, table_pool, pool,
                   client, invoked, running, connected>>

\* ---------------------------------------------------------------- dropdb
dropdb(n) ==
    /\ pc = "idle"
    /\ cmd' = "dropdb" /\ pc' = "dropdb_confirm"
    /\ name' = n
    /\ UNCHANGED <<store, confirmed, outcomes, world, cogs, to_run, extension, idx, tables, table_pool, pool, client,
                   invoked, running, attempts, failed, ddl, connected, echo>>

\* click.confirm('do you really want to do this?', abort=True)
\* (variant) confirm without abort=True: the answer is ignored
AfterConfirm_ignored(yes) == "dropdb_remove"

AfterConfirm(yes) == IF yes THEN "dropdb_remove" ELSE "aborted"

dropdb_confirm(yes) ==
    /\ pc = "dropdb_confirm"
    /\ pc' = AfterConfirm(yes)
    /\ confirmed' = IF yes THEN "yes" ELSE "no"
    /\ UNCHANGED <<store, outcomes, world, cmd, cogs, to_run, extension, name, idx, tables, table_pool,
                   pool, client, invoked, running, attempts, failed, ddl, connected, echo>>

\* the database rejects DROP TABLE n: there is no such table, or it cannot run it
DropRaises(n, ok) == live[n] = 0 \/ ~ok

\* run(remove_database(name)); conn is whether asyncpg.connect succeeds
dropdb_remove(conn, ok) ==
    /\ pc = "dropdb_remove"
    /\ connected' = conn
    /\ IF ~conn
       THEN /\ pc' = "dropdb_migration"
            /\ UNCHANGED <<live, rows, ddl, echo>>
       ELSE /\ ddl' = Append(ddl, <<"drop", name>>)
            /\ IF DropRaises(name, ok)
               THEN /\ echo' = Append(echo, Msg("could not delete the database", name))
                    /\ pc' = "done"
                    /\ UNCHANGED <<live, rows>>
               ELSE /\ live' = [live EXCEPT ![name] = 0]
                    /\ rows' = {u \in rows : UnitTable(u) # name}
                    /\ echo' = echo
                    /\ pc' = "dropdb_migration"
    /\ UNCHANGED <<store, confirmed, outcomes, history, current, cmd, cogs, to_run, extension, name, idx, tables,
                   table_pool, pool, client, invoked, running, attempts, failed>>

\* the exists() check and migration.unlink()
dropdb_migration ==
    /\ pc = "dropdb_migration"
    /\ LET warn1 == IF history[name] = <<>> \/ current[name] = 0
                    THEN <<Msg("warning: could not find the appropriate files.", name)>>
                    ELSE <<>>
           warn2 == IF history[name] = <<>>
                    THEN <<Msg("warning: could not delete migration file", name)>>
                    ELSE <<>>
       IN echo' = echo \o warn1 \o warn2
    /\ history' = [history EXCEPT ![name] = <<>>]
    /\ pc' = "dropdb_current"
    /\ UNCHANGED <<store, confirmed, outcomes, live, current, rows, cmd, cogs, to_run, extension, name, idx, tables,
                   table_pool, pool, client, invoked, running, attempts, failed, ddl,
                   connected>>

\* current.unlink() and the closing message
dropdb_current ==
    /\ pc = "dropdb_current"
    /\ LET warn == IF current[name] = 0
                   THEN <<Msg("warning: could not delete current migration file", name)>>
                   ELSE <<>>
       IN echo' = echo \o warn \o <<Msg("successfully removed database", name)>>
    /\ current' = [current EXCEPT ![name] = 0]
    /\ pc' = "done"
    /\ UNCHANGED <<store, confirmed, outcomes, live, history, rows, cmd, cogs, to_run, extension, name, idx, tables,
                   table_pool, pool, client, invoked, running, attempts, failed, ddl,
                   connected>>

\* ------------------------------------------------------------- convertjson
\* a < b for two attribute names, as Python compares str
StrLess(a, b) ==
    \E i, j \in 1..Len(NameOrder) : NameOrder[i] = a /\ NameOrder[j] = b /\ i < j

\* [attr.replace('migrate_', '') for attr in dir(data_migrators)
\*  if attr.startswith('migrate_')]: dir() lists the names sorted
RECURSIVE sorted(_)
sorted(S) ==
    IF S = {} THEN <<>>
    ELSE LET m == CHOOSE x \in S : \A y \in S \ {x} : StrLess(x, y)
         IN <<m>> \o sorted(S \ {m})

\* (variant) the migrators in the order the module declares them
dir_migrators_declared == Migrators

dir_migrators == sorted(UnitNames)

\* any(n == 'all' for n in cogs)
HasAll(c) == \E k \in 1..Len(c) : c[k] = "all"

\* getattr(data_migrators, 'migrate_' + cog) finds the function
\* (variant) no lookup: every name is taken to be a migrator
HasAttr_any(cog) == TRUE

HasAttr(cog) == cog \in UnitNames

\* position of the first cog getattr raises AttributeError for, 0 if none
FirstInvalid(c) ==
    IF \E k \in 1..Len(c) : ~HasAttr(c[k])
    THEN CHOOSE k \in 1..Len(c) : ~HasAttr(c[k]) /\ \A m \in 1..(k - 1) : HasAttr(c[m])
    ELSE 0

\* 'cogs.' + name for _, name in to_run
Extensions(units) == [k \in 1..Len(units) |-> "cogs." \o units[k]]

convertjson(c) ==
    /\ pc = "idle"
    /\ cmd' = "convertjson" /\ pc' = "cj_resolve"
    /\ cogs' = c
    /\ UNCHANGED <<store, confirmed, outcomes, world, to_run, extension, name, idx, tables, table_pool, pool, client,
                   invoked, running, attempts, failed, ddl, connected, echo>>

\* building to_run from cogs
cj_resolve ==
    /\ pc = "cj_resolve"
    /\ IF HasAll(cogs)
       THEN /\ to_run' = dir_migrators
            /\ pc' = "cj_pool"
            /\ echo' = echo
       ELSE IF FirstInvalid(cogs) # 0
       THEN /\ to_run' = SubSeq(cogs, 1, FirstInvalid(cogs) - 1)
            /\ echo' = Append(echo, Msg("invalid cog name given", cogs[FirstInvalid(cogs)]))
            /\ pc' = "done"
       ELSE /\ to_run' = cogs
            /\ pc' = "cj_pool"
            /\ echo' = echo
    /\ UNCHANGED <<store, confirmed, outcomes, world, cmd, cogs, extension, name, idx, tables, table_pool, pool,
                   client, invoked, running, attempts, failed, ddl, connected>>

\* where convertjson goes after run(create_pool())
\* (variant) the except clause does not return
AfterPool_noreturn(ok) == "cj_client"

\* (variant) initdb is invoked right after the pool, before the client is started
AfterPool_schema_first(ok) == IF ok THEN "initdb_pool" ELSE "done"

AfterPool(ok) == IF ok THEN "cj_client" ELSE "done"

\* pool = run(create_pool())
cj_pool(ok) ==
    /\ pc = "cj_pool"
    /\ pool' = IF ok THEN "open" ELSE pool
    /\ echo' = IF ok THEN echo
               ELSE Append(echo, Msg("Could not create PostgreSQL connection pool.", "convertjson"))
    /\ pc' = AfterPool(ok)
    /\ UNCHANGED <<store, confirmed, outcomes, world, cmd, cogs, to_run, extension, name, idx, tables, table_pool,
                   client, invoked, running, attempts, failed, ddl, connected>>

\* run(client.start(config.token)) logs in; a failure is not caught
cj_client(ok) ==
    /\ pc = "cj_client"
    /\ client' = IF ok THEN "started" ELSE client
    /\ pc' = IF ok THEN "cj_on_ready" ELSE "crashed"
    /\ UNCHANGED <<store, confirmed, outcomes, world, cmd, cogs, to_run, extension, name, idx, tables, table_pool,
                   pool, invoked, running, attempts, failed, ddl, connected, echo>>

\* on_ready: the cache is filled, the handler prints
cj_on_ready ==
    /\ pc = "cj_on_ready"
    /\ client' = "ready"
    /\ echo' = Append(echo, Msg("successfully booted up bot", "client"))
    /\ pc' = "cj_logout"
    /\ UNCHANGED <<store, confirmed, outcomes, world, cmd, cogs, to_run, extension, name, idx, tables, table_pool,
                   pool, invoked, running, attempts, failed, ddl, connected>>

\* (variant) on_ready does not log out: the session stays open
AfterLogout_open == "ready"

\* the session after await client.logout()
AfterLogout == "closed"

\* await client.logout() ends client.start; then ctx.invoke(initdb, extension=extensions)
cj_logout ==
    /\ pc = "cj_logout"
    /\ client' = AfterLogout
    /\ extension' = Extensions(to_run)
    /\ pc' = "initdb_pool"
    /\ UNCHANGED <<store, confirmed, outcomes, world, cmd, cogs, to_run, name, idx, tables, table_pool,
                   pool, invoked, running, attempts, failed, ddl, connected, echo>>

\* for migrator, _ in to_run: the loop ends, or the next migrator is called
cj_units ==
    /\ pc = "cj_units"
    /\ IF idx > Len(to_run)
       THEN /\ pc' = "done"
            /\ UNCHANGED <<invoked, running>>
       ELSE /\ invoked' = Append(invoked, to_run[idx])
            /\ running' = running \cup {to_run[idx]}
            /\ pc' = "cj_migrator"
    /\ UNCHANGED <<store, confirmed, outcomes, world, cmd, cogs, to_run, extension, name, idx, tables, table_pool,
                   pool, client, attempts, failed, ddl, connected, echo>>

\* where the loop goes after migrator number k returned (ok) or raised
\* (variant) the except clause does not return: the loop goes on after a failure
AfterMigrator_continue(k, ok) == "cj_units"

AfterMigrator(k, ok) == IF ok THEN "cj_units" ELSE "done"

\* the position of the loop after migrator number k
\* (variant) the loop steps over every other migrator
NextMigrator_skip(k) == k + 2

NextMigrator(k) == k + 1

\* a migrator can only write into a table that exists
CanImport(u) == UnitTable(u) \in Tables /\ live[UnitTable(u)] # 0

\* run(migrator(pool, client)) returns or raises; a migrator that raises may
\* already have deleted the rows of an earlier import (kept is whether it has not)
cj_migrator(ok, kept) ==
    /\ pc = "cj_migrator"
    /\ LET u == to_run[idx]
           done == ok /\ CanImport(u)
       IN /\ running' = running \ {u}
          /\ rows' = IF done THEN rows \cup {u}
                     ELSE IF kept THEN rows ELSE rows \ {u}
          /\ echo' = Append(echo, Msg(IF done THEN "migrator completed successfully"
                                      ELSE "migrator has failed, terminating", u))
          /\ outcomes' = Append(outcomes, done)
          /\ pc' = AfterMigrator(idx, done)
    /\ idx' = NextMigrator(idx)
    /\ UNCHANGED <<store, confirmed, live, history, current, cmd, cogs, to_run, extension, name, tables,
                   table_pool, pool, client, invoked, attempts, failed, ddl, connected>>

\* the status the process ends with: a command that returns ends with 0,
\* click.Abort and an exception nobody caught end with 1
exit_code == IF pc = "done" THEN 0 ELSE 1

\* the process ends; the next command starts a new one
exit ==
    /\ pc \in {"done", "aborted", "crashed"}
    /\ cmd' = "none" /\ pc' = "idle"
    /\ cogs' = <<>> /\ to_run' = <<>> /\ extension' = <<>> /\ name' = ""
    /\ idx' = 0 /\ tables' = <<>> /\ table_pool' = FALSE
    /\ pool' = "none" /\ client' = "none"
    /\ invoked' = <<>> /\ running' = {}
    /\ attempts' = [t \in Tables |-> 0] /\ failed' = {}
    /\ ddl' = <<>> /\ connected' = FALSE /\ echo' = <<>>
    /\ confirmed' = "none" /\ outcomes' = <<>>
    /\ UNCHANGED <<world, store>>

Next ==
    \/ \E ext \in SeqsUpTo(ExtNames, MaxCogs) : initdb(ext)
    \/ \E ok \in BOOLEAN : initdb_pool(ok)
    \/ \E ok \in BOOLEAN : initdb_load(ok)
    \/ initdb_loaded
    \/ \E ok \in BOOLEAN : initdb_tables(ok)
    \/ \E n \in Tables : dropdb(n)
    \/ \E yes \in BOOLEAN : dropdb_confirm(yes)
    \/ \E conn, ok \in BOOLEAN : dropdb_remove(conn, ok)
    \/ dropdb_migration
    \/ dropdb_current
    \/ \E c \in SeqsUpTo(CogNames, MaxCogs) : convertjson(c)
    \/ cj_resolve
    \/ \E ok \in BOOLEAN : cj_pool(ok)
    \/ \E ok \in BOOLEAN : cj_client(ok)
    \/ cj_on_ready
    \/ cj_logout
    \/ cj_units
    \/ \E ok, kept \in BOOLEAN : cj_migrator(ok, kept)
    \/ exit

Spec == Init /\ [][Next]_vars

\* ------------------------------------- table.create step by step (migration store)
\* The launcher's table.create above is one step.  Below the same apply is
\* followed through its store operations, for processes that can die between
\* two of them or run next to each other: load, DDL, appendSnapshot,
\* advanceCurrentPointer.

Max(a, b) == IF a >= b THEN a ELSE b

\* no apply run is in flight
WritersIdle == \A w \in Writers : wpc[w] = "idle"

\* (variant) the next version is always the first
NextVersion_restart(n) == 1

\* the version appendSnapshot writes after a history of n versions
NextVersion(n) == n + 1

\* (variant) appendSnapshot writes without the version check
AppendAllowed_unchecked(w) == TRUE

\* appendSnapshot's version check: nobody advanced the sequence since w read it
AppendAllowed(w) == Len(history[wtab[w]]) = wread[w]

\* the history file after snapshot d is written as version v
WriteAt(h, v, d) == IF v > Len(h) THEN Append(h, d) ELSE [h EXCEPT ![v] = d]

\* step 1: run w loads the history and the pointer of t and plans
apply(w, t, d) ==
    /\ wpc[w] = "idle"
    /\ Len(history[t]) < MaxVersion
    /\ wtab' = [wtab EXCEPT ![w] = t]
    /\ wdecl' = [wdecl EXCEPT ![w] = d]
    /\ wread' = [wread EXCEPT ![w] = Len(history[t])]
    /\ wpc' = [wpc EXCEPT ![w] = CASE PlanFor(t, d) = "noop" -> "done"
                                   [] PlanFor(t, d) = "corrupt" -> "failed"
                                   [] OTHER -> "planned"]
    /\ wfail' = [wfail EXCEPT ![w] = IF PlanFor(t, d) = "corrupt" THEN "corrupt" ELSE ""]
    /\ torn' = IF PlanFor(t, d) = "noop" THEN [torn EXCEPT ![t] = 0] ELSE torn
    /\ UNCHANGED <<world, written>>
    /\ UNCHANGED <<cmd, pc, cogs, to_run, extension, name, idx, tables, table_pool, pool,
                   client, invoked, running, attempts, failed, ddl, connected, confirmed,
                   outcomes, echo>>

\* step 2: the DDL is executed against the live database; ok is whether the
\* database accepts it
apply_ddl(w, ok) ==
    /\ wpc[w] = "planned"
    /\ IF ok
       THEN /\ live' = [live EXCEPT ![wtab[w]] = wdecl[w]]
            /\ wpc' = [wpc EXCEPT ![w] = "ddl_done"]
            /\ UNCHANGED wfail
       ELSE /\ wpc' = [wpc EXCEPT ![w] = "failed"]
            /\ wfail' = [wfail EXCEPT ![w] = "ddl"]
            /\ UNCHANGED live
    /\ UNCHANGED <<history, current, rows, wtab, wdecl, wread, written, torn>>
    /\ UNCHANGED <<cmd, pc, cogs, to_run, extension, name, idx, tables, table_pool, pool,
                   client, invoked, running, attempts, failed, ddl, connected, confirmed,
                   outcomes, echo>>

\* step 3: appendSnapshot writes the declared definition as the next version,
\* or fails with ConcurrentModification
apply_append(w) ==
    /\ wpc[w] = "ddl_done"
    /\ IF AppendAllowed(w)
       THEN /\ history' = [history EXCEPT
                             ![wtab[w]] = WriteAt(@, NextVersion(wread[w]), wdecl[w])]
            /\ written' = [written EXCEPT ![wtab[w]] = Max(@, NextVersion(wread[w]))]
            /\ wpc' = [wpc EXCEPT ![w] = "appended"]
            /\ UNCHANGED wfail
       ELSE /\ wpc' = [wpc EXCEPT ![w] = "failed"]
            /\ wfail' = [wfail EXCEPT ![w] = "conflict"]
            /\ UNCHANGED <<history, written>>
    /\ UNCHANGED <<live, current, rows, wtab, wdecl, wread, torn>>
    /\ UNCHANGED <<cmd, pc, cogs, to_run, extension, name, idx, tables, table_pool, pool,
                   client, invoked, running, attempts, failed, ddl, connected, confirmed,
                   outcomes, echo>>

\* step 4: advanceCurrentPointer to the version just written ends the apply
apply_advance(w) ==
    /\ wpc[w] = "appended"
    /\ current' = [current EXCEPT ![wtab[w]] = NextVersion(wread[w])]
    /\ wpc' = [wpc EXCEPT ![w] = "done"]
    /\ torn' = [torn EXCEPT ![wtab[w]] = 0]
    /\ UNCHANGED <<live, history, rows, wtab, wdecl, wread, wfail, written>>
    /\ UNCHANGED <<cmd, pc, cogs, to_run, extension, name, idx, tables, table_pool, pool,
                   client, invoked, running, attempts, failed, ddl, connected, confirmed,
                   outcomes, echo>>

\* the process of run w dies between two steps; what it did so far stays
apply_crash(w) ==
    /\ wpc[w] \in {"planned", "ddl_done", "appended"}
    /\ torn' = IF wpc[w] \in {"ddl_done", "appended"}
               THEN [torn EXCEPT ![wtab[w]] = wdecl[w]] ELSE torn
    /\ wpc' = [wpc EXCEPT ![w] = "idle"]
    /\ wtab' = [wtab EXCEPT ![w] = ""]
    /\ wdecl' = [wdecl EXCEPT ![w] = 0]
    /\ wread' = [wread EXCEPT ![w] = 0]
    /\ UNCHANGED <<world, wfail, written>>
    /\ UNCHANGED <<cmd, pc, cogs, to_run, extension, name, idx, tables, table_pool, pool,
                   client, invoked, running, attempts, failed, ddl, connected, confirmed,
                   outcomes, echo>>

\* run w is over; its process ends
apply_exit(w) ==
    /\ wpc[w] \in {"done", "failed"}
    /\ wpc' = [wpc EXCEPT ![w] = "idle"]
    /\ wtab' = [wtab EXCEPT ![w] = ""]
    /\ wdecl' = [wdecl EXCEPT ![w] = 0]
    /\ wread' = [wread EXCEPT ![w] = 0]
    /\ wfail' = [wfail EXCEPT ![w] = ""]
    /\ UNCHANGED <<world, written, torn>>
    /\ UNCHANGED <<cmd, pc, cogs, to_run, extension, name, idx, tables, table_pool, pool,
                   client, invoked, running, attempts, failed, ddl, connected, confirmed,
                   outcomes, echo>>

\* one apply run or one dropdb at a time, over restarts, crashes and drops
NextStore ==
    \/ \E t \in StoreTables, d \in 1..MaxSchema :
          pc = "idle" /\ WritersIdle /\ apply("w1", t, d)
    \/ \E ok \in BOOLEAN : apply_ddl("w1", ok)
    \/ apply_append("w1")
    \/ apply_advance("w1")
    \/ apply_crash("w1")
    \/ apply_exit("w1")
    \/ \E n \in StoreTables : WritersIdle /\ dropdb(n)
    \/ \E yes \in BOOLEAN : dropdb_confirm(yes)
    \/ \E conn, ok \in BOOLEAN : dropdb_remove(conn, ok)
    \/ dropdb_migration
    \/ dropdb_current
    \/ exit

SpecStore == Init /\ [][NextStore]_vars

\* apply runs of separate processes next to each other
NextRace ==
    \/ \E w \in Writers, t \in StoreTables, d \in 1..MaxSchema : apply(w, t, d)
    \/ \E w \in Writers, ok \in BOOLEAN : apply_ddl(w, ok)
    \/ \E w \in Writers : apply_append(w)
    \/ \E w \in Writers : apply_advance(w)
    \/ \E w \in Writers : apply_exit(w)

SpecRace == Init /\ [][NextRace]_vars

\* ==================================================================== claims

Said(text, about) == Msg(text, about) \in Range(echo)

Unknown(c) == \E k \in 1..Len(c) : c[k] \notin UnitNames \cup {"all"}

\* the import run acquired nothing and ran nothing, and where it has ended it
\* ended with the report of the invalid name
StoppedAtValidation ==
    /\ pool = "none" /\ client = "none" /\ ~table_pool
    /\ ddl = <<>> /\ invoked = <<>>
    /\ pc \in {"done", "crashed"} =>
          /\ pc = "done"
          /\ \E k \in 1..Len(cogs) : echo = <<Msg("invalid cog name given", cogs[k])>>

\* C2 (as claimed): every list of requested names holding an unregistered name,
\* also one that holds "all", fails validation before the pool, the session,
\* any DDL and any unit.
C2_UnknownAlwaysRejected ==
    (cmd = "convertjson" /\ Unknown(cogs)) => StoppedAtValidation

\* C2 (amended): every list of requested names that does not hold "all" and
\* holds an unregistered name fails validation before the pool is created,
\* the session started, any DDL executed and any unit invoked.
C2_UnknownRejectedWithoutAll ==
    (cmd = "convertjson" /\ ~HasAll(cogs) /\ Unknown(cogs)) => StoppedAtValidation

\* C2 witness: ["profiles", "missing_unit"] ended at validation.
C2_Witness ==
    /\ cmd = "convertjson" /\ pc = "done"
    /\ cogs = <<"profiles", "missing_unit">>
    /\ echo = <<Msg("invalid cog name given", "missing_unit")>>
    /\ pool = "none" /\ client = "none"

\* C3 (as claimed): whenever a unit is invoked, every table of its owning
\* module has a Current Pointer; a failed Ensure Schema phase stops the run
\* before any unit.
C3_SchemaBeforeUnits ==
    \A k \in 1..Len(invoked) :
        \A t \in Range(ModuleTables("cogs." \o invoked[k])) : current[t] # 0

\* C4 (as claimed): whenever a drop of a table reports success, the live table
\* is gone and so are its snapshot history and its current pointer, and the next
\* apply for it is a first-time creation.
C4_DropComplete ==
    (cmd = "dropdb" /\ Said("successfully removed database", name)) =>
        /\ live[name] = 0
        /\ history[name] = <<>> /\ current[name] = 0
        /\ Plan(name) = "create"

\* C5: a drop that was not confirmed does nothing destructive: from the refusal
\* to the end of the process no step changes the live tables, the rows or the
\* migration files, no connection is opened and no DROP TABLE is executed.
C5_RefusedDropIsInert ==
    [][confirmed' = "no" =>
          /\ UNCHANGED <<live, history, current, rows>>
          /\ ~connected' /\ ddl' = <<>>
          /\ pc' = "aborted"]_vars

\* C5 witness: the drop of a table that exists, with its files, was refused.
C5_Witness ==
    /\ cmd = "dropdb" /\ pc = "aborted" /\ confirmed = "no"
    /\ live[name] # 0 /\ history[name] # <<>> /\ current[name] # 0

\* initdb got past its pool and through its two loops
InitdbFinished == table_pool /\ pc \notin {"initdb_load", "initdb_tables"}

\* C6: in one initdb run a failure for one table is reported for that table and
\* does not stop the run: every registered table has table.create attempted
\* exactly once, and the completion message is printed exactly for the tables
\* whose step did not fail (which are then up to date).
C6_EveryTableOnce ==
    /\ \A t \in Tables : attempts[t] <= 1
    /\ InitdbFinished =>
          \A t \in Tables : attempts[t] = IF t \in Range(tables) THEN 1 ELSE 0
    /\ \A t \in Tables :
          /\ Said("Could not create", t) <=> t \in failed
          /\ Said("Processing creation or migration complete.", t)
                <=> (attempts[t] = 1 /\ t \notin failed)
          /\ Said("Processing creation or migration complete.", t) => Plan(t) = "noop"
          /\ ~(Said("Could not create", t) /\ Said("Processing creation or migration complete.", t))

\* C6 witness: the first table failed, the ones after it were still attempted
\* and one of them completed.
C6_Witness ==
    /\ cmd = "initdb" /\ pc = "done" /\ Len(tables) = 3
    /\ tables[1] \in failed /\ tables[2] \notin failed
    /\ \A t \in Tables : attempts[t] = 1

\* C7 (as claimed): an import run that acquired the pool or opened the session
\* ends with the session closed and the pool closed.
C7_Teardown ==
    (cmd = "convertjson" /\ pc \in {"done", "crashed"}) =>
        /\ pool # "open"
        /\ client \notin {"started", "ready"}

\* C8: when acquiring the pool fails at the start of an import run, the failure
\* is reported and the run stops: no session, no DDL, no unit.
C8_PoolFailureStops ==
    (cmd = "convertjson" /\ Said("Could not create PostgreSQL connection pool.", "convertjson")) =>
        /\ pc = "done"
        /\ pool = "none" /\ client = "none" /\ ~table_pool
        /\ ddl = <<>> /\ invoked = <<>> /\ tables = <<>>
        /\ Len(echo) = 1

\* C8 witness: a run with units to run ended at the pool.
C8_Witness ==
    /\ cmd = "convertjson" /\ pc = "done" /\ Len(to_run) = 2
    /\ Said("Could not create PostgreSQL connection pool.", "convertjson")

\* C9: the invocations follow the resolved sequence, which for names given
\* without "all" is the caller's list: never reordered, one at a time, each
\* started only after the one before finished, and when no unit fails each
\* resolved unit is invoked exactly once.
C9_InOrderOnce ==
    /\ Cardinality(running) <= 1
    /\ Len(invoked) <= Len(to_run)
    /\ \A k \in 1..Len(invoked) : invoked[k] = to_run[k]
    /\ Len(outcomes) = Len(invoked) - Cardinality(running)
    /\ pc = "cj_units" => running = {}
    /\ (cmd = "convertjson" /\ pool = "open" /\ ~HasAll(cogs)) => to_run = cogs
    /\ (cmd = "convertjson" /\ pc = "done" /\ client = "closed"
            /\ \A k \in 1..Len(outcomes) : outcomes[k]) => invoked = to_run

\* C9 witness: two units given against the name order ran in the given order.
C9_Witness ==
    /\ cmd = "convertjson" /\ pc = "done"
    /\ cogs = <<"tags", "profiles">> /\ invoked = cogs
    /\ outcomes = <<TRUE, TRUE>>

\* convertjson has built to_run from a list that holds "all"
ResolvedAll == cmd = "convertjson" /\ HasAll(cogs) /\ pc # "cj_resolve"

\* C10 (as claimed): with "all" the resolved sequence is every registered unit
\* once, in the order the registry declares them.
C10_DeclarationOrder == ResolvedAll => to_run = Migrators

\* C10 (amended): with "all" the resolved sequence is every registered unit
\* exactly once, in ascending order of the unit names (not in declaration
\* order), the same on every resolution.
C10_NameOrder ==
    ResolvedAll =>
        /\ Len(to_run) = Cardinality(UnitNames)
        /\ Range(to_run) = UnitNames
        /\ \A i, j \in 1..Len(to_run) : i < j => StrLess(to_run[i], to_run[j])
        /\ to_run = <<"profiles", "stars", "tags">>

\* C10 witness: "all" given with another name resolved to the three units,
\* and they ran.
C10_Witness ==
    /\ ResolvedAll /\ pc = "done" /\ Len(cogs) = 2
    /\ invoked = <<"profiles", "stars", "tags">>

\* a failure was reported, or an exception ended the process
FailureSeen ==
    \/ pc = "crashed"
    \/ \E k \in 1..Len(echo) :
          echo[k].text \in {"Could not create PostgreSQL connection pool.",
                            "Could not load", "Could not create",
                            "could not delete the database",
                            "invalid cog name given",
                            "migrator has failed, terminating"}

\* C11 (as claimed): every failure path of initdb, dropdb and convertjson ends
\* with a diagnostic printed and a non-zero outcome, and none ends with an
\* exception nobody handled.
C11_FailuresEndNonZero ==
    (pc \in {"done", "aborted", "crashed"} /\ FailureSeen) =>
        /\ pc # "crashed"
        /\ echo # <<>>
        /\ exit_code # 0

\* the pointer of t refers to a snapshot equal to the declared definition
Applied(t) ==
    /\ current[t] \in 1..Len(history[t])
    /\ history[t][current[t]] = Declared(t)

\* the process is running table.create for t in this step
Creating(t) == pc = "initdb_tables" /\ idx <= Len(tables) /\ tables[idx] = t

\* C12: an apply run that follows a successful apply run for a table, with the
\* declared definition unchanged and no drop in between, executes no DDL,
\* appends no snapshot and leaves the Current Pointer as it is: a successful
\* apply leaves the pointer at a snapshot equal to the definition, only dropdb
\* changes that, and an apply that finds it so does nothing.
C12_SecondApplyIsNoop ==
    [][\A t \in Tables :
          /\ (Creating(t) /\ t \notin failed') => Applied(t)'
          /\ (Applied(t) /\ cmd # "dropdb") => Applied(t)'
          /\ (Creating(t) /\ Applied(t)) =>
                /\ ddl' = ddl /\ history' = history /\ current' = current /\ live' = live
                /\ t \notin failed'
                /\ echo' = Append(echo, Msg("Processing creation or migration complete.", t))
      ]_vars

\* C12 witness: a second initdb run went over a table that the first had
\* created, and executed nothing.
C12_Witness ==
    /\ cmd = "initdb" /\ pc = "done" /\ tables # <<>>
    /\ \A k \in 1..Len(tables) : Applied(tables[k]) /\ tables[k] \notin failed
    /\ ddl = <<>>

\* no command is in flight
Quiescent == pc \in {"idle", "done", "aborted", "crashed"}

\* C15 (as claimed): outside an in-flight apply, also after a drop has ended,
\* a table is live exactly when it has a Current Pointer, and its live schema
\* is the snapshot the pointer refers to (the declared definition after a
\* successful apply).
C15_LiveMatchesPointer ==
    Quiescent =>
        \A t \in Tables :
            /\ live[t] # 0 <=> current[t] # 0
            /\ current[t] # 0 =>
                  /\ current[t] <= Len(history[t])
                  /\ history[t][current[t]] = live[t]

\* initdb has been entered by this process
SchemaEntered ==
    table_pool \/ Said("Could not create PostgreSQL connection pool.", "initdb")

\* the Ensure Schema phase of an import run is over
SchemaDone ==
    SchemaEntered /\ pc \notin {"initdb_pool", "initdb_load", "initdb_tables"}

\* C16 (as claimed): in an import run the session with the external service is
\* not started before the Ensure Schema phase has completed.
C16_SchemaBeforeSession ==
    (cmd = "convertjson" /\ client # "none") => SchemaDone

\* C16 (amended): the phases occur in the order Connect, Warm External Cache,
\* Ensure Schema, Unit Execution: Ensure Schema is entered only with the pool
\* acquired and the session already started, ready and closed again, and no
\* unit is invoked before Ensure Schema is over.
C16_SessionBeforeSchema ==
    cmd = "convertjson" =>
        /\ (pc \in {"initdb_pool", "initdb_load", "initdb_tables"} \/ SchemaEntered) =>
              /\ pool = "open"
              /\ client = "closed"
              /\ Said("successfully booted up bot", "client")
        /\ client # "none" => pool = "open"
        /\ invoked # <<>> => SchemaDone

\* C16 witness: Ensure Schema failed for a table after the session had been
\* started and closed.
C16_Witness ==
    /\ cmd = "convertjson" /\ pc = "initdb_tables"
    /\ failed # {} /\ client = "closed"

\* C17 (as claimed): at every invocation of an import unit the session has
\* signalled readiness and has not yet been closed.
C17_SessionOpenDuringUnits ==
    (cmd = "convertjson" /\ running # {}) => client = "ready"

\* C17 (amended): the session is closed by on_ready as soon as it has
\* signalled readiness, before Ensure Schema and before any unit: at every
\* invocation of an import unit the session has signalled readiness and is
\* already closed, and it stays closed to the end of the run.
C17_SessionClosedBeforeUnits ==
    cmd = "convertjson" =>
        /\ (invoked # <<>> \/ SchemaEntered) =>
              /\ client = "closed"
              /\ Said("successfully booted up bot", "client")
        /\ client = "ready" => pc = "cj_logout"

\* C17 witness: a unit is running and the session is closed.
C17_Witness ==
    /\ cmd = "convertjson" /\ pc = "cj_migrator" /\ running # {}
    /\ client = "closed"

\* C18 (as claimed): a confirmed drop of a table that is not live ends as a
\* success with a warning, not an error, and with neither the snapshot history
\* nor the Current Pointer present.
C18_DropOfAbsentTable ==
    (cmd = "dropdb" /\ confirmed = "yes" /\ connected /\ pc = "done" /\ live[name] = 0) =>
        /\ Said("successfully removed database", name)
        /\ ~Said("could not delete the database", name)
        /\ history[name] = <<>> /\ current[name] = 0

\* C20 (as claimed): dropdb deletes the snapshot history file and the pointer
\* file only in a run in which DROP TABLE was executed without error; where
\* the connection could not be opened or the statement raised, both are left.
C20_FilesOnlyAfterLiveDrop ==
    [][(cmd = "dropdb" /\ (history' # history \/ current' # current)) =>
          /\ connected
          /\ <<"drop", name>> \in Range(ddl)
          /\ ~Said("could not delete the database", name)]_vars


\* the versions of t's history a step writes: new ones, and held ones it changes
ChangedVersions(t) ==
    {v \in 1..Len(history'[t]) : v > Len(history[t]) \/ history'[t][v] # history[t][v]}

\* C13 (as stated): over apply runs, restarts and drops, every version written
\* for a table is above every version ever written for it before, so no version
\* number is written twice and no written snapshot is changed
C13_NeverReusedAcrossDrops ==
    [][\A t \in Tables : \A v \in ChangedVersions(t) : v > written[t]]_vars

\* C13 (amended): every snapshot written is the version right above the ones the
\* history holds and leaves those as they were; the history loses snapshots
\* only when dropdb removes all of them, after which numbering starts at 1 again
C13_IncreasingUntilDropped ==
    [][\A t \in Tables :
          /\ \A v \in ChangedVersions(t) :
                v = Len(history[t]) + 1 /\ Len(history'[t]) = v
          /\ Len(history'[t]) < Len(history[t])
                => history'[t] = <<>> /\ cmd = "dropdb" /\ name = t]_vars

\* a table dropped after three versions and brought up and altered again
C13_Witness ==
    \E t \in StoreTables :
        /\ Len(history[t]) >= 2
        /\ written[t] > Len(history[t])
        /\ history[t][1] # history[t][2]

\* run w takes its appendSnapshot step
Appends(w) == wpc[w] = "ddl_done" /\ wpc'[w] # "ddl_done"

\* C14: of interleaved apply runs for one table, appendSnapshot writes for a run
\* only if nobody advanced the history since the run read it, and then exactly
\* the next version; a run whose read is stale gets ConcurrentModification and
\* writes nothing; no two runs have written after reading the same history; no
\* step changes a version the history holds or adds more than one version
C14_OneAppendPerVersion ==
    [][/\ \A w \in Writers :
            Appends(w) =>
                IF Len(history[wtab[w]]) = wread[w]
                THEN /\ wpc'[w] = "appended"
                     /\ history'[wtab[w]] = Append(history[wtab[w]], wdecl[w])
                ELSE /\ wpc'[w] = "failed" /\ wfail'[w] = "conflict"
                     /\ history'[wtab[w]] = history[wtab[w]]
       /\ \A w1, w2 \in Writers :
            /\ w1 # w2 /\ wtab'[w1] = wtab'[w2]
            /\ wpc'[w1] = "appended" /\ wpc'[w2] = "appended"
            => wread'[w1] # wread'[w2]
       /\ \A t \in Tables :
            /\ Len(history[t]) <= Len(history'[t])
            /\ Len(history'[t]) <= Len(history[t]) + 1
            /\ \A v \in 1..Len(history[t]) : history'[t][v] = history[t][v]]_vars

\* one run wrote the version another run, with a different definition, was
\* refused with ConcurrentModification
C14_Witness ==
    \E w1, w2 \in Writers :
        /\ wtab[w1] = wtab[w2] /\ wread[w1] = wread[w2]
        /\ wdecl[w1] # wdecl[w2]
        /\ wpc[w1] = "failed" /\ wfail[w1] = "conflict"
        /\ wpc[w2] \in {"appended", "done"}
        /\ Len(history[wtab[w2]]) > wread[w2]
        /\ history[wtab[w2]][wread[w2] + 1] = wdecl[w2]

\* the pointer of every table is absent or refers to a version the history holds
PointerValid == \A t \in Tables : current[t] = 0 \/ current[t] \in 1..Len(history[t])

\* run w applies the definition of an apply that died between its DDL and the
\* pointer advance
Rerun(w) == wtab'[w] \in Tables /\ torn[wtab'[w]] # 0 /\ torn[wtab'[w]] = wdecl'[w]

\* the apply run after such a crash fails only if the database rejects the DDL,
\* and when it completes the pointer refers to the latest snapshot, which
\* equals the declared definition
RerunCompletes ==
    \A w \in Writers :
        /\ Rerun(w) /\ wpc[w] # "failed" /\ wpc'[w] = "failed" => wfail'[w] = "ddl"
        /\ Rerun(w) /\ wpc[w] # "done" /\ wpc'[w] = "done" =>
              /\ current'[wtab'[w]] = Len(history'[wtab'[w]])
              /\ current'[wtab'[w]] >= 1
              /\ history'[wtab'[w]][current'[wtab'[w]]] = wdecl'[w]

\* C19: after an apply died between its DDL and the pointer advance, the next
\* apply of the same definition completes with the pointer at the latest
\* snapshot, equal to the declared definition; and in every state the pointer
\* is absent or refers to a version the history holds
C19_RerunnableAndPointerValid == [][RerunCompletes /\ PointerValid']_vars

\* (the re-run part of C19 alone)
RerunSafe == [][RerunCompletes]_vars

\* an apply that died after appending was run again to completion
RerunSeen ==
    \E t \in StoreTables :
        /\ torn[t] = 0 /\ wpc["w1"] = "done" /\ wtab["w1"] = t
        /\ Len(history[t]) >= 2 /\ current[t] = Len(history[t])
        /\ history[t][Len(history[t])] = history[t][Len(history[t]) - 1]

====
